---- MODULE Spec2Model ----
(***************************************************************************)
(* The document-analysis pipeline of the intake-form OCR assistant:        *)
(* analyzeDocument (src/route.ts) with the helpers of azure-utils          *)
(* (src/unnamed/part_000).  Every running analysis is one asynchronous     *)
(* task; it is suspended while the submission POST, a status GET or the    *)
(* inter-attempt timer is outstanding, and the code between two            *)
(* suspension points runs atomically (single-threaded event loop).         *)
(*                                                                         *)
(* Strings are sequences of tokens.  A token is a one-character separator  *)
(* ("/", ":", " ", "\n") or a chunk of characters holding no separator,    *)
(* so that endsWith, slice, trim and concatenation act on tokens as they   *)
(* act on characters.  The Japanese message texts of the source are        *)
(* written as ASCII chunks; the source line of each is in the comment.     *)
(***************************************************************************)
EXTENDS Integers, Sequences, FiniteSets, TLC

\* Number of analyses that run concurrently.
NumTasks == 2

\* route.ts:67  const maxAttempts = 10
maxAttempts == 10

\* Largest rowCount and columnCount of a generated table, and the largest
\* number of cells in its cell list.
MaxCount == 2
MaxCells == 2

\* Largest number of tokens of a generated endpoint.
MaxEndpointLen == 7

Tasks == 1..NumTasks

-----------------------------------------------------------------------------
(* Input values                                                            *)

\* part_000:5  the allow-list of validateFileType
supportedTypes == {"application/pdf", "image/jpeg", "image/jpg", "image/png"}

FileTypes == {"application/pdf", "image/png", "text/plain", ""}

HexChars == {"0", "1", "2", "3", "4", "5", "6", "7", "8", "9",
             "a", "b", "c", "d", "e", "f", "A", "B", "C", "D", "E", "F"}

\* API keys are sequences of characters.
KeyA == [i \in 1..32 |-> "a"]
KeyB == [i \in 1..32 |-> IF i % 2 = 0 THEN "F" ELSE "0"]
KeyShort == [i \in 1..31 |-> "a"]
KeyNotHex == [i \in 1..32 |-> IF i = 32 THEN "g" ELSE "a"]
KeyEmpty == << >>

ApiKeys == {KeyA, KeyB, KeyShort, KeyNotHex, KeyEmpty}

\* Endpoints are sequences of tokens with "/" and ":" as separators.
EpSlash == <<"https", ":", "/", "/", "x.cognitiveservices.azure.com", "/">>
EpNoSlash == <<"https", ":", "/", "/", "x.cognitiveservices.azure.com">>
EpOtherHost == <<"https", ":", "/", "/", "example.com", "/", "/">>
EpNotUrl == <<"not-a-url">>
EpNoHost == <<"https", ":", "/", "/">>
EpEmpty == << >>

Endpoints == {EpSlash, EpNoSlash, EpOtherHost, EpNotUrl, EpNoHost, EpEmpty}

\* Model identifiers: a blank one is replaced by the default (route.ts:24-26).
ModelBlank == << >>
ModelSpaces == <<" ", " ">>
ModelRead == <<"prebuilt-read">>
ModelIds == {ModelBlank, ModelSpaces, ModelRead}

\* The uploaded document, base64-encoded.
Documents == {"JVBERi0xLjQ="}

Requests == [fileBase64 : Documents, fileType : FileTypes, apiKey : ApiKeys,
             endpoint : Endpoints, modelId : ModelIds]

NoRequest == [fileBase64 |-> "", fileType |-> "", apiKey |-> << >>,
              endpoint |-> << >>, modelId |-> << >>]

-----------------------------------------------------------------------------
(* Message texts                                                           *)

\* route.ts:16
MsgUnsupportedFileType == <<"unsupported-file-type">>
\* route.ts:20
MsgInvalidApiKey == <<"invalid-api-key">>
\* part_000:12
MsgEndpointMissing == <<"azure-endpoint-not-specified">>
\* part_000:26
MsgEndpointInvalid == <<"invalid-azure-endpoint-url">>
\* route.ts:61
MsgMissingOperationLocation == <<"operation-location-header-not-found">>
\* route.ts:108
MsgTimeout == <<"timeout", ":", " ", "could-not-wait-for-analysis">>
\* route.ts:101  the prefix of the message of a "failed" analysis
MsgAnalysisFailedPrefix == <<"analysis-failed", ":", " ">>
\* route.ts:201
MsgExtractFallback == <<"could-not-extract-text-from-result">>
\* part_000:111
MsgUnknownError == <<"unknown-error-occurred">>
\* part_000:133, 137, 141, 145
Msg401 == <<"azure-api-authentication-failed">>
Msg403 == <<"azure-api-access-denied">>
Msg404 == <<"azure-api-endpoint-not-found">>
Msg429 == <<"azure-api-rate-limit-exceeded">>
\* part_000:152-164  "Azure API error"
MsgAzureError == <<"azure-api-error">>

-----------------------------------------------------------------------------
(* Validators and the endpoint normalizer (part_000)                       *)

\* part_000:4-7
validateFileType(fileType) == fileType \in supportedTypes

\* part_000:31-39  /^[0-9a-fA-F]{32}$/
validateApiKey(apiKey) ==
    /\ apiKey # << >>
    /\ Len(apiKey) = 32
    /\ \A i \in 1..Len(apiKey) : apiKey[i] \in HexChars

\* Schemes for which the URL parser wants a host.
SpecialSchemes == {"https", "http", "ftp", "ws", "wss"}

\* new URL(endpoint) without a base.  The first token is the scheme and
\* the second ":"; HostIndex is the place of the first token after the
\* slashes that follow, 0 when there is none.
HostIndex(endpoint) ==
    IF \E i \in 3..Len(endpoint) : endpoint[i] # "/"
    THEN CHOOSE i \in 3..Len(endpoint) :
            /\ endpoint[i] # "/"
            /\ \A j \in 3..(i - 1) : endpoint[j] = "/"
    ELSE 0

\* A host at place i: a chunk, followed by nothing, by a path, or by ":"
\* with an empty port (no chunk in use is a number).
IsHostAt(endpoint, i) ==
    /\ i >= 3 /\ i <= Len(endpoint)
    /\ endpoint[i] \notin {"/", ":", " ", "\n"}
    /\ \/ i = Len(endpoint)
       \/ endpoint[i + 1] = "/"
       \/ /\ endpoint[i + 1] = ":"
          /\ i + 1 = Len(endpoint) \/ endpoint[i + 2] = "/"

\* A scheme that is not special has an authority only after "//", and the
\* authority may be empty.
HasAuthority(endpoint) ==
    /\ Len(endpoint) >= 5
    /\ endpoint[3] = "/" /\ endpoint[4] = "/" /\ endpoint[5] # "/"

IsParseableUrl(endpoint) ==
    /\ Len(endpoint) >= 2
    /\ endpoint[1] \notin {"/", ":", " ", "\n"}
    /\ endpoint[2] = ":"
    /\ IF endpoint[1] \in SpecialSchemes
       THEN IsHostAt(endpoint, HostIndex(endpoint))
       ELSE HasAuthority(endpoint) => IsHostAt(endpoint, 5)

hostname(endpoint) ==
    IF endpoint[1] \in SpecialSchemes THEN endpoint[HostIndex(endpoint)]
    ELSE IF HasAuthority(endpoint) THEN endpoint[5]
    ELSE ""

\* String.prototype.endsWith('/') and slice(0, -1)
endsWithSlash(s) == Len(s) > 0 /\ s[Len(s)] = "/"
sliceLast(s) == SubSeq(s, 1, Len(s) - 1)

\* hostname.includes('cognitiveservices.azure.com') on the hosts in use
StandardHosts == {"x.cognitiveservices.azure.com"}

\* The trailing slash left in place
normalizeAzureEndpointKeepSlash(endpoint) ==
    IF endpoint = << >>
    THEN [ok |-> FALSE, value |-> << >>, error |-> MsgEndpointMissing,
          warn |-> FALSE]
    ELSE IF ~IsParseableUrl(endpoint)
    THEN [ok |-> FALSE, value |-> << >>, error |-> MsgEndpointInvalid,
          warn |-> FALSE]
    ELSE [ok |-> TRUE, value |-> endpoint, error |-> << >>,
          warn |-> hostname(endpoint) \notin StandardHosts]

\* part_000:10-28.  ok = FALSE stands for the thrown Error, whose message is
\* in error; warn is the console.warn of line 19.
normalizeAzureEndpoint(endpoint) ==
    IF endpoint = << >>
    THEN [ok |-> FALSE, value |-> << >>, error |-> MsgEndpointMissing,
          warn |-> FALSE]
    ELSE IF ~IsParseableUrl(endpoint)
    THEN [ok |-> FALSE, value |-> << >>, error |-> MsgEndpointInvalid,
          warn |-> FALSE]
    ELSE [ok |-> TRUE,
          value |-> IF endsWithSlash(endpoint) THEN sliceLast(endpoint)
                    ELSE endpoint,
          error |-> << >>,
          warn |-> hostname(endpoint) \notin StandardHosts]

-----------------------------------------------------------------------------
(* Caught values and the error translators (part_000)                      *)

\* A thrown or caught JavaScript value: t is its kind, message its message
\* field (or the string itself), json its JSON.stringify form.
ErrorOf(msg) == [t |-> "Error", message |-> msg, json |-> <<"{}">>]
StringValue(s) == [t |-> "string", message |-> s, json |-> s]
UndefinedValue == [t |-> "undefined", message |-> << >>, json |-> << >>]
ObjectValue(js) == [t |-> "object", message |-> << >>, json |-> js]
ObjectWithMessage(msg, js) == [t |-> "objectWithMessage", message |-> msg, json |-> js]

\* part_000:109-127
humanizeErrorMessage(errorObj) ==
    IF errorObj.t = "undefined" \/ (errorObj.t = "string" /\ errorObj.message = << >>)
    THEN MsgUnknownError
    ELSE IF errorObj.t = "string" THEN errorObj.message
    ELSE IF errorObj.t = "Error" THEN errorObj.message
    ELSE IF errorObj.t = "objectWithMessage" THEN errorObj.message
    ELSE errorObj.json

\* The error member of a response body: t = "absent" (no member), "object"
\* (hasCode/hasMessage say which of code and message it has), "string" (text
\* holds it), "other" (json is its stringified form) or "raises" (a value
\* whose conversion to text raises, such as a code that is a Symbol).
NoError == [t |-> "absent", hasCode |-> FALSE, code |-> << >>,
            hasMessage |-> FALSE, message |-> << >>, text |-> << >>,
            json |-> << >>]
ErrorXY == [NoError EXCEPT !.t = "object", !.hasCode = TRUE, !.code = <<"X">>,
                           !.hasMessage = TRUE, !.message = <<"Y">>,
                           !.json = <<"{code", ":", "X,message", ":", "Y}">>]
ErrorCodeOnly == [NoError EXCEPT !.t = "object", !.hasCode = TRUE,
                                 !.code = <<"X">>,
                                 !.json = <<"{code", ":", "X}">>]
ErrorText == [NoError EXCEPT !.t = "string", !.text = <<"quota", " ", "exceeded">>,
                             !.json = <<"quota", " ", "exceeded">>]
ErrorNumber == [NoError EXCEPT !.t = "other", !.json = <<"42">>]
ErrorMessageOnly == [NoError EXCEPT !.t = "object", !.hasMessage = TRUE,
                                    !.message = <<"Y">>,
                                    !.json = <<"{message", ":", "Y}">>]
ErrorEmptyString == [NoError EXCEPT !.t = "string"]
ErrorZero == [NoError EXCEPT !.t = "other", !.json = <<"0">>]
ErrorNull == [NoError EXCEPT !.t = "other", !.json = <<"null">>]
ErrorRaising == [NoError EXCEPT !.t = "raises", !.hasCode = TRUE,
                                !.hasMessage = TRUE, !.message = <<"Y">>]

\* part_000:148  the truthiness of responseBody.error
IsTruthy(error) ==
    /\ error.t # "absent"
    /\ ~(error.t = "string" /\ error.text = << >>)
    /\ ~(error.t = "other" /\ error.json \in {<<"0">>, <<"false">>, <<"null">>})

\* The errors member of a status body: its JSON.stringify text, "undefined"
\* when the member is absent (route.ts:101).
NoServiceErrors == <<"undefined">>
ServiceErrors == <<"[{code", ":", "InvalidRequest}]">>

\* The body of a response, as response.json() gives it: parsed = FALSE when
\* json() rejects; error is the error member, status the status member
\* ("" when absent), errors the errors member and payload the body as the
\* raw analysis result.
NoPayload == [analyzeResult |->
                [isArray |-> TRUE, pages |-> << >>, tables |-> << >>,
                 keyValuePairs |-> << >>]]
EmptyBody == [parsed |-> TRUE, error |-> NoError, status |-> "",
              errors |-> NoServiceErrors, payload |-> NoPayload]
Unparseable == [EmptyBody EXCEPT !.parsed = FALSE]
BodyOf(err) == [EmptyBody EXCEPT !.error = err]
StatusBody(st, errs, doc) ==
    [EmptyBody EXCEPT !.status = st, !.errors = errs, !.payload = doc]

\* String(status) for the status codes in use
StatusText(status) ==
    CASE status = 200 -> "200" [] status = 202 -> "202"
      [] status = 400 -> "400" [] status = 401 -> "401"
      [] status = 403 -> "403" [] status = 404 -> "404"
      [] status = 429 -> "429" [] status = 500 -> "500"
      [] OTHER -> "503"

\* The body looked at before the status
extractAzureErrorInfoBodyFirst(response, responseBody) ==
    IF responseBody.error.t = "raises"
    THEN MsgAzureError \o <<" ", "(", StatusText(response.status), ")">>
    ELSE IF IsTruthy(responseBody.error)
    THEN LET error == responseBody.error IN
         IF error.t = "object" /\ error.hasCode /\ error.hasMessage
         THEN MsgAzureError \o <<" ", "(">> \o error.code \o <<")", ":", " ">>
                  \o error.message
         ELSE IF error.t = "string"
         THEN MsgAzureError \o <<":", " ">> \o error.text
         ELSE MsgAzureError \o <<":", " ">> \o error.json
    ELSE IF response.status = 401 THEN Msg401
    ELSE IF response.status = 403 THEN Msg403
    ELSE IF response.status = 404 THEN Msg404
    ELSE IF response.status = 429 THEN Msg429
    ELSE MsgAzureError \o <<" ", "(", StatusText(response.status), ")", ":", " ">>
             \o response.statusText

\* The branch for an error object with code and message left out
extractAzureErrorInfoStringified(response, responseBody) ==
    IF response.status = 401 THEN Msg401
    ELSE IF response.status = 403 THEN Msg403
    ELSE IF response.status = 404 THEN Msg404
    ELSE IF response.status = 429 THEN Msg429
    ELSE IF responseBody.error.t = "raises"
    THEN MsgAzureError \o <<" ", "(", StatusText(response.status), ")">>
    ELSE IF IsTruthy(responseBody.error)
    THEN LET error == responseBody.error IN
         IF error.t = "string"
         THEN MsgAzureError \o <<":", " ">> \o error.text
         ELSE MsgAzureError \o <<":", " ">> \o error.json
    ELSE MsgAzureError \o <<" ", "(", StatusText(response.status), ")", ":", " ">>
             \o response.statusText

\* part_000:130-166.  response is [status, statusText]; responseBody is the
\* parsed body, {} when it could not be parsed (route.ts:45-50).  An error
\* member whose conversion raises lands in the catch block of line 163.
extractAzureErrorInfo(response, responseBody) ==
    IF response.status = 401 THEN Msg401
    ELSE IF response.status = 403 THEN Msg403
    ELSE IF response.status = 404 THEN Msg404
    ELSE IF response.status = 429 THEN Msg429
    ELSE IF responseBody.error.t = "raises"
    THEN MsgAzureError \o <<" ", "(", StatusText(response.status), ")">>
    ELSE IF IsTruthy(responseBody.error)
    THEN LET error == responseBody.error IN
         IF error.t = "object" /\ error.hasCode /\ error.hasMessage
         THEN MsgAzureError \o <<" ", "(">> \o error.code \o <<")", ":", " ">>
                  \o error.message
         ELSE IF error.t = "string"
         THEN MsgAzureError \o <<":", " ">> \o error.text
         ELSE MsgAzureError \o <<":", " ">> \o error.json
    ELSE MsgAzureError \o <<" ", "(", StatusText(response.status), ")", ":", " ">>
             \o response.statusText

-----------------------------------------------------------------------------
(* The raw analysis result and the result extractor                        *)

\* A raw result (the body of a "succeeded" poll) is
\*   [analyzeResult |-> [isArray, pages, tables, keyValuePairs]]
\* isArray = FALSE stands for a pages member that is no array, over which
\* for...of raises.  A page is [pageNumber, width, height, unit, lines,
\* linesIsArray]; linesIsArray = FALSE stands for a lines member that is a
\* string: for...of walks its characters, whose content reads "undefined",
\* and lines holds one such entry per character, while .map is no function
\* of it.  A line is [content], a table [rowCount, columnCount, cells], a cell
\* [rowIndex, columnIndex, rowSpan, columnSpan, content], a pair [key, value];
\* contents are strings (token sequences), << >> when absent; a span of 0
\* stands for an absent one.
Cell(r, c, txt) == [rowIndex |-> r, columnIndex |-> c, rowSpan |-> 0,
                    columnSpan |-> 0, content |-> txt]

PageOne == [pageNumber |-> "1", width |-> 8, height |-> 11, unit |-> "inch",
            linesIsArray |-> TRUE,
            lines |-> << [content |-> <<"Name", ":", " ", "Taro">>],
                         [content |-> <<"Age", " ", "40">>] >>]

TableSparse == [rowCount |-> 2, columnCount |-> 2,
                cells |-> << Cell(0, 0, <<"A">>), Cell(1, 1, <<"B">>) >>]
TableBadRow == [rowCount |-> 2, columnCount |-> 2,
                cells |-> << Cell(0, 0, <<"A">>), Cell(2, 0, <<"B">>) >>]

PairFull == [key |-> <<"Allergy">>, value |-> <<"none">>]
PairNoKey == [key |-> << >>, value |-> <<"yes">>]

DocSimple == [analyzeResult |->
                [isArray |-> TRUE, pages |-> <<PageOne>>,
                 tables |-> <<TableSparse>>,
                 keyValuePairs |-> <<PairFull, PairNoKey>>]]
DocBadRow == [analyzeResult |->
                [isArray |-> TRUE, pages |-> <<PageOne>>,
                 tables |-> <<TableBadRow>>, keyValuePairs |-> << >>]]
DocNoArray == [analyzeResult |->
                [isArray |-> FALSE, pages |-> << >>, tables |-> << >>,
                 keyValuePairs |-> << >>]]

Payloads == {DocSimple, DocBadRow, DocNoArray, NoPayload}

\* Raw results for the extractors.  Generated tables: every rowCount and
\* columnCount up to MaxCount (0 also stands for a missing count) with every
\* list of up to MaxCells cells whose indices run up to MaxCount, so that
\* cells are missing, repeated, and outside the declared grid; the i-th cell
\* of a list has a content of its own, the first one possibly none.
CellText(i) == CASE i = 1 -> <<"A">> [] i = 2 -> <<"B">> [] OTHER -> <<"C">>
RECURSIVE CellLists(_)
CellLists(n) ==
    IF n = 0 THEN {<< >>}
    ELSE {Append(cells, Cell(r, c, txt)) :
             cells \in CellLists(n - 1), r \in 0..MaxCount, c \in 0..MaxCount,
             txt \in IF n = 1 THEN {<< >>, CellText(n)} ELSE {CellText(n)}}
GeneratedTables(maxCells) ==
    [rowCount : 0..MaxCount, columnCount : 0..MaxCount,
     cells : UNION {CellLists(n) : n \in 0..maxCells}]

PageTwo == [pageNumber |-> "2", width |-> 8, height |-> 11, unit |-> "inch",
            linesIsArray |-> TRUE, lines |-> << >>]
PageLinesString ==
    [pageNumber |-> "1", width |-> 8, height |-> 11, unit |-> "inch",
     linesIsArray |-> FALSE,
     lines |-> << [content |-> <<"undefined">>], [content |-> <<"undefined">>] >>]
TableSpans == [rowCount |-> 2, columnCount |-> 1,
               cells |-> << [Cell(0, 0, <<"A">>) EXCEPT !.rowSpan = 2],
                            [Cell(1, 0, << >>) EXCEPT !.columnSpan = 3] >>]
TableNegativeCount == [rowCount |-> -1, columnCount |-> 2, cells |-> << >>]
TableNegativeIndex == [rowCount |-> 1, columnCount |-> 2,
                       cells |-> << Cell(0, -1, <<"A">>), Cell(-1, 0, <<"B">>) >>]
PairNoValue == [key |-> <<"Allergy">>, value |-> << >>]

RawResults(maxCells) ==
    {[analyzeResult |-> [isArray |-> TRUE, pages |-> << >>, tables |-> <<t>>,
                         keyValuePairs |-> << >>]] :
        t \in GeneratedTables(maxCells)}
    \cup [analyzeResult :
             [isArray : BOOLEAN,
              pages : {<< >>, <<PageOne>>, <<PageOne, PageTwo>>,
                       <<PageLinesString>>},
              tables : {<< >>, <<TableSparse>>, <<TableSparse, TableBadRow>>,
                        <<TableNegativeCount>>, <<TableNegativeIndex>>,
                        <<TableSpans>>},
              keyValuePairs : {<< >>, <<PairFull, PairNoKey>>, <<PairNoValue>>}]]

NL == "\n"
Whitespace == {" ", "\n"}

\* route.ts:141, 155, 159, 187
PageHeader(pageNumber) ==
    <<"=====", " ", "page", " ", pageNumber, " ", "=====", NL, NL>>
TableSectionHeader == <<"=====", " ", "table", " ", "=====", NL, NL>>
FieldSectionHeader == <<"=====", " ", "form-fields", " ", "=====", NL, NL>>
\* route.ts:190
UnknownField == <<"unknown-field">>

\* `${i + 1}` for the table numbers in use
IndexText(i) == CASE i = 1 -> "1" [] i = 2 -> "2" [] i = 3 -> "3" [] OTHER -> "4"

\* String.prototype.trim
RECURSIVE trimStart(_)
trimStart(s) ==
    IF s # << >> /\ Head(s) \in Whitespace THEN trimStart(Tail(s)) ELSE s
RECURSIVE trimEnd(_)
trimEnd(s) ==
    IF s # << >> /\ s[Len(s)] \in Whitespace
    THEN trimEnd(SubSeq(s, 1, Len(s) - 1)) ELSE s
trim(s) == trimEnd(trimStart(s))

\* route.ts:145-147  the lines of one page, each followed by a newline
RECURSIVE LinesText(_)
LinesText(lines) ==
    IF lines = << >> THEN << >>
    ELSE Head(lines).content \o <<NL>> \o LinesText(Tail(lines))

\* route.ts:139-150
RECURSIVE PagesText(_)
PagesText(pages) ==
    IF pages = << >> THEN << >>
    ELSE PageHeader(Head(pages).pageNumber) \o LinesText(Head(pages).lines)
             \o <<NL>> \o PagesText(Tail(pages))

\* route.ts:167  Array(rowCount).fill(null).map(() => Array(columnCount).fill(''))
\* The grid is a sequence of rows, a row a sequence of strings.
EmptyGrid(rowCount, columnCount) ==
    [r \in 1..rowCount |-> [c \in 1..columnCount |-> << >>]]

\* route.ts:172  row[columnIndex] = content: an index past the end extends
\* the array (the holes join as ''), a negative one leaves the elements alone.
SetColumn(row, columnIndex, content) ==
    IF columnIndex < 0 THEN row
    ELSE [c \in 1..(IF columnIndex + 1 > Len(row) THEN columnIndex + 1 ELSE Len(row)) |->
             IF c = columnIndex + 1 THEN content
             ELSE IF c <= Len(row) THEN row[c] ELSE << >>]

\* route.ts:169-173  ok = FALSE when tableData[rowIndex] is undefined and
\* the assignment raises a TypeError.
RECURSIVE PlaceCells(_, _)
PlaceCells(cells, grid) ==
    IF cells = << >> THEN [ok |-> TRUE, grid |-> grid]
    ELSE LET cell == Head(cells) IN
         IF cell.rowIndex < 0 \/ cell.rowIndex >= Len(grid)
         THEN [ok |-> FALSE, grid |-> grid]
         ELSE PlaceCells(Tail(cells),
                  [grid EXCEPT ![cell.rowIndex + 1] =
                      SetColumn(@, cell.columnIndex, cell.content)])

\* Array.prototype.join(' | ')
RECURSIVE joinRow(_)
joinRow(row) ==
    IF row = << >> THEN << >>
    ELSE IF Len(row) = 1 THEN row[1]
    ELSE row[1] \o <<" ", "|", " ">> \o joinRow(Tail(row))

\* route.ts:176-178
RECURSIVE RowsText(_)
RowsText(grid) ==
    IF grid = << >> THEN << >>
    ELSE joinRow(Head(grid)) \o <<NL>> \o RowsText(Tail(grid))

\* route.ts:157-181  the tables from number i on; ok = FALSE when one raises
RECURSIVE TablesText(_, _)
TablesText(tables, i) ==
    IF tables = << >> THEN [ok |-> TRUE, text |-> << >>]
    ELSE LET table == Head(tables)
             placed == PlaceCells(table.cells,
                                  EmptyGrid(table.rowCount, table.columnCount))
             rest == TablesText(Tail(tables), i + 1)
         IN  IF table.rowCount < 0 \/ table.columnCount < 0 \/ ~placed.ok \/ ~rest.ok
             THEN [ok |-> FALSE, text |-> << >>]
             ELSE [ok |-> TRUE,
                   text |-> <<"table", " ", IndexText(i), ":", NL>>
                              \o RowsText(placed.grid) \o <<NL>> \o rest.text]

\* A pair without key text listed with an empty label
RECURSIVE PairsTextNoPlaceholder(_)
PairsTextNoPlaceholder(pairs) ==
    IF pairs = << >> THEN << >>
    ELSE Head(pairs).key \o <<":", " ">> \o Head(pairs).value \o <<NL>>
             \o PairsTextNoPlaceholder(Tail(pairs))

\* route.ts:189-193
RECURSIVE PairsText(_)
PairsText(pairs) ==
    IF pairs = << >> THEN << >>
    ELSE LET pair == Head(pairs)
             key == IF pair.key = << >> THEN UnknownField ELSE pair.key
         IN  key \o <<":", " ">> \o pair.value \o <<NL>> \o PairsText(Tail(pairs))

\* The catch block returning the empty string
extractTextEmptyOnError(result) ==
    LET analyzeResult == result.analyzeResult
        tablesText == TablesText(analyzeResult.tables, 1)
    IN  IF ~analyzeResult.isArray \/ ~tablesText.ok
        THEN << >>
        ELSE trim(PagesText(analyzeResult.pages)
                  \o (IF Len(analyzeResult.tables) > 0
                      THEN TableSectionHeader \o tablesText.text ELSE << >>)
                  \o (IF Len(analyzeResult.keyValuePairs) > 0
                      THEN FieldSectionHeader
                               \o PairsText(analyzeResult.keyValuePairs) \o <<NL>>
                      ELSE << >>))

\* route.ts:132-203
extractTextFromAnalysisResult(result) ==
    LET analyzeResult == result.analyzeResult
        tablesText == TablesText(analyzeResult.tables, 1)
    IN  IF ~analyzeResult.isArray \/ ~tablesText.ok
        THEN MsgExtractFallback
        ELSE trim(PagesText(analyzeResult.pages)
                  \o (IF Len(analyzeResult.tables) > 0
                      THEN TableSectionHeader \o tablesText.text ELSE << >>)
                  \o (IF Len(analyzeResult.keyValuePairs) > 0
                      THEN FieldSectionHeader
                               \o PairsText(analyzeResult.keyValuePairs) \o <<NL>>
                      ELSE << >>))

\* part_000:55-65
StructuredPage(page) ==
    [pageNumber |-> page.pageNumber, width |-> page.width,
     height |-> page.height, unit |-> page.unit,
     lines |-> [i \in 1..Len(page.lines) |->
                   [content |-> page.lines[i].content]]]

\* The spans copied as they are
StructuredCellNoDefault(cell) == cell

\* part_000:78-87  rowSpan: cell.rowSpan || 1, columnSpan: cell.columnSpan || 1
StructuredCell(cell) ==
    [cell EXCEPT !.rowSpan = IF @ = 0 THEN 1 ELSE @,
                 !.columnSpan = IF @ = 0 THEN 1 ELSE @]

\* part_000:71-90
StructuredTable(table) ==
    [rowCount |-> table.rowCount, columnCount |-> table.columnCount,
     cells |-> [i \in 1..Len(table.cells) |-> StructuredCell(table.cells[i])]]

\* part_000:95-98  key: pair.key?.content || '', value: pair.value?.content || ''
StructuredPair(pair) == [key |-> pair.key, value |-> pair.value]

\* part_000:42-106  isNull = TRUE is the null returned from the catch, which
\* is reached when pages cannot be walked or lines has no map
extractStructuredData(analysisResult) ==
    LET analyzeResult == analysisResult.analyzeResult IN
    IF \/ ~analyzeResult.isArray
       \/ \E i \in 1..Len(analyzeResult.pages) :
             ~analyzeResult.pages[i].linesIsArray
    THEN [isNull |-> TRUE, pages |-> << >>, tables |-> << >>,
          keyValuePairs |-> << >>]
    ELSE [isNull |-> FALSE,
          pages |-> [i \in 1..Len(analyzeResult.pages) |->
                        StructuredPage(analyzeResult.pages[i])],
          tables |-> [i \in 1..Len(analyzeResult.tables) |->
                        StructuredTable(analyzeResult.tables[i])],
          keyValuePairs |-> [i \in 1..Len(analyzeResult.keyValuePairs) |->
                               StructuredPair(analyzeResult.keyValuePairs[i])]]

-----------------------------------------------------------------------------
(* The mock formatter (route.ts:205-251)                                   *)

\* String.prototype.split('\n')
RECURSIVE splitLines(_, _)
splitLines(text, line) ==
    IF text = << >> THEN <<line>>
    ELSE IF Head(text) = NL THEN <<line>> \o splitLines(Tail(text), << >>)
    ELSE splitLines(Tail(text), Append(line, Head(text)))

\* String.prototype.startsWith
startsWith(s, prefix) ==
    Len(s) >= Len(prefix) /\ SubSeq(s, 1, Len(prefix)) = prefix

\* route.ts:219  the section headers of the extracted text and blank lines
IsSkippedLine(line) ==
    \/ startsWith(line, <<"=====", " ", "page">>)
    \/ startsWith(line, <<"=====", " ", "table">>)
    \/ startsWith(line, <<"=====", " ", "form-fields">>)
    \/ trim(line) = << >>

\* route.ts:224-241  one line that is not skipped: "key: value" becomes a
\* bullet when both sides of the first colon are not blank
FormatLine(line) ==
    LET colons == {i \in 1..Len(line) : line[i] = ":"}
        first == CHOOSE i \in colons : \A j \in colons : i <= j
        key == trim(SubSeq(line, 1, first - 1))
        value == trim(SubSeq(line, first + 1, Len(line)))
    IN  IF colons # {} /\ key # << >> /\ value # << >>
        THEN <<"*">> \o key \o <<":", " ">> \o value \o <<NL>>
        ELSE line \o <<NL>>

\* route.ts:217-242
RECURSIVE FormatLines(_)
FormatLines(lines) ==
    IF lines = << >> THEN << >>
    ELSE (IF IsSkippedLine(Head(lines)) THEN << >> ELSE FormatLine(Head(lines)))
             \o FormatLines(Tail(lines))

\* route.ts:207-251  the fixed first line (212), the lines, and the fixed
\* closing block (245-248)
formatTextWithGemma(text) ==
    <<"[intake-form-info]", NL>>
        \o FormatLines(splitLines(text, << >>))
        \o <<NL, "[chart-memo]", NL, "examine-with-the-above-in-mind", NL,
             "to-be-replaced-by-generated-text", NL>>

-----------------------------------------------------------------------------
(* The analysis service, as seen through fetch                             *)

\* What `await fetch(...)` followed by the reading of the body yields:
\* kind = "throw" when fetch rejects with thrown, else a response with its
\* ok flag, status, statusText, body and Operation-Location header.
NoHeader == [present |-> FALSE, value |-> << >>]
HeaderOf(v) == [present |-> TRUE, value |-> v]

Response(ok, status, statusText, body, header) ==
    [kind |-> "response", thrown |-> UndefinedValue, ok |-> ok,
     status |-> status, statusText |-> statusText, body |-> body,
     header |-> header]
Rejected(e) ==
    [kind |-> "throw", thrown |-> e, ok |-> FALSE, status |-> 0,
     statusText |-> << >>, body |-> Unparseable, header |-> NoHeader]
NoOutcome ==
    [kind |-> "none", thrown |-> UndefinedValue, ok |-> FALSE, status |-> 0,
     statusText |-> << >>, body |-> Unparseable, header |-> NoHeader]

\* The TypeError of a failed fetch and the SyntaxError of response.json()
FetchError == ErrorOf(<<"fetch", " ", "failed">>)
JsonSyntaxError == ErrorOf(<<"unexpected-end-of-json-input">>)

\* The service opens one operation per submission: the handle of the
\* operation opened for the submission of analysis a.
Handle(a) == <<"https", ":", "/", "/", "x.cognitiveservices.azure.com", "/",
               "operations", "/", IndexText(a)>>

ErrorStatuses == {400, 401, 403, 404, 429, 500}
ErrorBodies == {Unparseable, EmptyBody, BodyOf(ErrorXY), BodyOf(ErrorCodeOnly),
                BodyOf(ErrorText), BodyOf(ErrorNumber)}
ErrorResponses ==
    {Response(FALSE, st, <<"Error", " ", StatusText(st)>>, b, NoHeader) :
        st \in ErrorStatuses, b \in ErrorBodies}

\* What fetch may reject with
Rejections == {FetchError, UndefinedValue, StringValue(<<"aborted">>),
               ObjectWithMessage(<<"socket", " ", "hang", " ", "up">>, <<"{}">>),
               ObjectValue(<<"{code", ":", "ECONNRESET}">>)}

Accepted(b, h) == Response(TRUE, 202, <<"Accepted">>, b, h)

PostOutcomes(a) ==
    {Rejected(e) : e \in Rejections}
    \cup ErrorResponses
    \cup {Accepted(b, h) :
             b \in {EmptyBody, Unparseable},
             h \in {NoHeader, HeaderOf(<< >>), HeaderOf(Handle(a))}}

NonTerminalStatuses == {"running", "notStarted", ""}

Status(st, errs, doc) ==
    Response(TRUE, 200, <<"OK">>, StatusBody(st, errs, doc), NoHeader)

PollOutcomes ==
    {Rejected(e) : e \in Rejections}
    \cup ErrorResponses
    \cup {Response(TRUE, 200, <<"OK">>, Unparseable, NoHeader)}
    \cup {Status(st, NoServiceErrors, NoPayload) : st \in NonTerminalStatuses}
    \cup {Status("failed", e, NoPayload) : e \in {ServiceErrors, NoServiceErrors}}
    \cup {Status("succeeded", NoServiceErrors, d) : d \in Payloads}

\* The requests and responses of the runs with several analyses: all for
\* the same document, the first analysis with one key and the others with
\* another
KeyOf(a) == IF a = 1 THEN KeyA ELSE KeyB
ConcRequests(a) ==
    {r \in Requests : /\ r.fileType = "application/pdf"
                      /\ r.apiKey = KeyOf(a)
                      /\ r.endpoint \in {EpSlash, EpEmpty}
                      /\ r.modelId = ModelBlank}
ConcPostOutcomes(a) ==
    {Response(FALSE, 500, <<"Error", " ", "500">>, BodyOf(ErrorXY), NoHeader),
     Accepted(EmptyBody, NoHeader), Accepted(EmptyBody, HeaderOf(Handle(a)))}
ConcPollOutcomes ==
    {Status("running", NoServiceErrors, NoPayload),
     Status("failed", ServiceErrors, NoPayload),
     Status("succeeded", NoServiceErrors, DocSimple)}

-----------------------------------------------------------------------------
(* analyzeDocument (route.ts:12-129)                                       *)

VARIABLES
    pc,                 \* where each analysis is suspended
    req,                \* the arguments of the call
    operationLocation,  \* route.ts:58
    attempts,           \* route.ts:66
    result,             \* the value the call resolves to
    posts,              \* submission POSTs issued, as [url, key, body]
    gets,               \* status GETs issued, as [url, key]
    delays,             \* number of inter-attempt timers started
    extractions,        \* number of calls of extractTextFromAnalysisResult
    postOutcome,        \* what the submission POST yielded
    pollOutcome,        \* what the latest status GET yielded
    pollsSeen,          \* number of status GETs that have completed
    pendingSeen,        \* how many of them were OK with a non-terminal status
    httpRequest,        \* the body of the request the POST handler serves
    httpResponse,       \* the response the POST handler returned
    formatCalls,        \* the texts formatTextWithGemma was called with
    called,             \* a helper called on its own: its name and arguments
    returned            \* what that call returned

\* The variables of analyzeDocument and those of the POST handler
avars == <<pc, req, operationLocation, attempts, result, posts, gets, delays,
           extractions, postOutcome, pollOutcome, pollsSeen, pendingSeen>>
hvars == <<httpRequest, httpResponse, formatCalls>>
fvars == <<called, returned>>

vars == <<avars, hvars, fvars>>

NullStructured == [isNull |-> TRUE, pages |-> << >>, tables |-> << >>,
                   keyValuePairs |-> << >>]

\* route.ts:117-121
Success(text, structured) ==
    [success |-> TRUE, content |-> text, structuredData |-> structured,
     error |-> << >>]

\* The message member of the caught value taken as the error
FailureMessageOnly(caught) ==
    [success |-> FALSE, content |-> << >>, structuredData |-> NullStructured,
     error |-> caught.message]

\* route.ts:124-127
Failure(caught) ==
    [success |-> FALSE, content |-> << >>, structuredData |-> NullStructured,
     error |-> humanizeErrorMessage(caught)]
NoResult ==
    [success |-> FALSE, content |-> << >>, structuredData |-> NullStructured,
     error |-> << >>]

\* route.ts:24-26  a blank model identifier becomes the default
DefaultModel(modelId) ==
    IF trim(modelId) = << >> THEN <<"prebuilt-layout">> ELSE modelId

\* route.ts:30
ApiUrl(baseEndpoint, modelId) ==
    baseEndpoint \o <<"/", "documentintelligence", "/", "documentModels", "/">>
        \o modelId \o <<":", "analyze?api-version=2023-07-31">>

\* The entry checks with the API key looked at before the file type
EntryGuardKeyFirst(r) ==
    IF ~validateApiKey(r.apiKey)
    THEN [ok |-> FALSE, error |-> MsgInvalidApiKey, apiUrl |-> << >>]
    ELSE IF ~validateFileType(r.fileType)
    THEN [ok |-> FALSE, error |-> MsgUnsupportedFileType, apiUrl |-> << >>]
    ELSE LET n == normalizeAzureEndpoint(r.endpoint) IN
         IF ~n.ok THEN [ok |-> FALSE, error |-> n.error, apiUrl |-> << >>]
         ELSE [ok |-> TRUE, error |-> << >>,
               apiUrl |-> ApiUrl(n.value, DefaultModel(r.modelId))]

\* route.ts:15-30  the checks made before the first network call, in the
\* order of the code; error is the message of the Error thrown.
EntryGuard(r) ==
    IF ~validateFileType(r.fileType)
    THEN [ok |-> FALSE, error |-> MsgUnsupportedFileType, apiUrl |-> << >>]
    ELSE IF ~validateApiKey(r.apiKey)
    THEN [ok |-> FALSE, error |-> MsgInvalidApiKey, apiUrl |-> << >>]
    ELSE LET n == normalizeAzureEndpoint(r.endpoint) IN
         IF ~n.ok THEN [ok |-> FALSE, error |-> n.error, apiUrl |-> << >>]
         ELSE [ok |-> TRUE, error |-> << >>,
               apiUrl |-> ApiUrl(n.value, DefaultModel(r.modelId))]

\* Only server errors taken as failures; no response taken as a failure
ResponseFailedServerOnly(o) == ~o.ok /\ o.status >= 500
ResponseFailedNever(o) == FALSE

\* route.ts:44 and 83  !response.ok
ResponseFailed(o) == ~o.ok

\* route.ts:45-52 and 84-91  the message of the Error thrown for a response
\* that is not ok; the body is {} when json() rejects
TranslatedError(o) ==
    extractAzureErrorInfo(o, IF o.body.parsed THEN o.body ELSE EmptyBody)

\* route.ts:60  !operationLocation
MissingOperationLocation(header) == ~header.present \/ header.value = << >>

\* The loop left one attempt early; the loop entered once more
LoopConditionShort(n) == n + 1 < maxAttempts
LoopConditionInclusive(n) == n <= maxAttempts

\* route.ts:69  while (attempts < maxAttempts)
LoopCondition(n) == n < maxAttempts

\* The attempt counter left as it is
NextAttemptSame(n) == n

\* route.ts:70  attempts++
NextAttempt(n) == n + 1

\* Status tests that miss "failed", or take all but "failed" for success
IsFailedNever(statusResult) == FALSE
IsSucceededUnlessFailed(statusResult) == statusResult.status # "failed"

\* route.ts:97 and 100
IsSucceeded(statusResult) == statusResult.status = "succeeded"
IsFailed(statusResult) == statusResult.status = "failed"

\* The handle looked up by document, whichever analysis submitted it
PollTargetByDocument(a) ==
    operationLocation[CHOOSE b \in Tasks :
                          /\ req[b].fileBase64 = req[a].fileBase64
                          /\ operationLocation[b] # << >>]

\* route.ts:76  the URL of the status GET of analysis a
PollTarget(a) == operationLocation[a]

\* route.ts:101
AnalysisFailedMessage(statusResult) ==
    MsgAnalysisFailedPrefix \o statusResult.errors

AnalysisInit ==
    /\ pc = [a \in Tasks |-> "idle"]
    /\ req = [a \in Tasks |-> NoRequest]
    /\ operationLocation = [a \in Tasks |-> << >>]
    /\ attempts = [a \in Tasks |-> 0]
    /\ result = [a \in Tasks |-> NoResult]
    /\ posts = [a \in Tasks |-> << >>]
    /\ gets = [a \in Tasks |-> << >>]
    /\ delays = [a \in Tasks |-> 0]
    /\ extractions = [a \in Tasks |-> 0]
    /\ postOutcome = [a \in Tasks |-> NoOutcome]
    /\ pollOutcome = [a \in Tasks |-> NoOutcome]
    /\ pollsSeen = [a \in Tasks |-> 0]
    /\ pendingSeen = [a \in Tasks |-> 0]

\* route.ts:122-128  the catch block: the call resolves to a failure
Fail(a, caught) ==
    /\ pc' = [pc EXCEPT ![a] = "done"]
    /\ result' = [result EXCEPT ![a] = Failure(caught)]

\* route.ts:69-73 and 107-109  the head of the loop after n attempts: the
\* next attempt starts with its timer, or the attempts are exhausted
LoopHead(a, n) ==
    IF LoopCondition(n)
    THEN /\ attempts' = [attempts EXCEPT ![a] = NextAttempt(n)]
         /\ delays' = [delays EXCEPT ![a] = @ + 1]
         /\ pc' = [pc EXCEPT ![a] = "awaitDelay"]
         /\ UNCHANGED result
    ELSE /\ Fail(a, ErrorOf(MsgTimeout))
         /\ UNCHANGED <<attempts, delays>>

\* route.ts:12-42  the call of analyzeDocument up to the submission POST
Start(a, requests) ==
    /\ pc[a] = "idle"
    /\ \E r \in requests :
          LET g == EntryGuard(r) IN
          /\ req' = [req EXCEPT ![a] = r]
          /\ IF g.ok
             THEN /\ posts' = [posts EXCEPT ![a] =
                         Append(@, [url |-> g.apiUrl, key |-> r.apiKey,
                                    body |-> r.fileBase64])]
                  /\ pc' = [pc EXCEPT ![a] = "awaitPost"]
                  /\ UNCHANGED result
             ELSE /\ Fail(a, ErrorOf(g.error))
                  /\ UNCHANGED posts
    /\ UNCHANGED <<operationLocation, attempts, gets, delays, extractions,
                   postOutcome, pollOutcome, pollsSeen, pendingSeen>>

\* route.ts:33-73  the submission POST completes
PostResponds(a, outcomes) ==
    /\ pc[a] = "awaitPost"
    /\ \E o \in outcomes :
          /\ postOutcome' = [postOutcome EXCEPT ![a] = o]
          /\ IF o.kind = "throw"
             THEN /\ Fail(a, o.thrown)
                  /\ UNCHANGED <<operationLocation, attempts, delays>>
             ELSE IF ResponseFailed(o)
             THEN /\ Fail(a, ErrorOf(TranslatedError(o)))
                  /\ UNCHANGED <<operationLocation, attempts, delays>>
             ELSE IF ~o.body.parsed
             THEN /\ Fail(a, JsonSyntaxError)
                  /\ UNCHANGED <<operationLocation, attempts, delays>>
             ELSE IF MissingOperationLocation(o.header)
             THEN /\ Fail(a, ErrorOf(MsgMissingOperationLocation))
                  /\ UNCHANGED <<operationLocation, attempts, delays>>
             ELSE /\ operationLocation' =
                         [operationLocation EXCEPT ![a] = o.header.value]
                  /\ LoopHead(a, 0)
    /\ UNCHANGED <<req, posts, gets, extractions, pollOutcome, pollsSeen,
                   pendingSeen>>

\* route.ts:73-81  the timer fires and the status GET is issued
DelayElapses(a) ==
    /\ pc[a] = "awaitDelay"
    /\ gets' = [gets EXCEPT ![a] =
                   Append(@, [url |-> PollTarget(a), key |-> req[a].apiKey])]
    /\ pc' = [pc EXCEPT ![a] = "awaitGet"]
    /\ UNCHANGED <<req, operationLocation, attempts, result, posts, delays,
                   extractions, postOutcome, pollOutcome, pollsSeen,
                   pendingSeen>>

\* What an OK poll with a non-terminal status is, read off the response
IsPending(o) ==
    /\ o.kind = "response" /\ o.ok /\ o.body.parsed
    /\ o.body.status \notin {"succeeded", "failed"}

\* route.ts:76-121  the status GET completes
GetResponds(a, outcomes) ==
    /\ pc[a] = "awaitGet"
    /\ \E o \in outcomes :
          /\ pollOutcome' = [pollOutcome EXCEPT ![a] = o]
          /\ pollsSeen' = [pollsSeen EXCEPT ![a] = @ + 1]
          /\ pendingSeen' = [pendingSeen EXCEPT ![a] =
                                IF IsPending(o) THEN @ + 1 ELSE @]
          /\ IF o.kind = "throw"
             THEN /\ Fail(a, o.thrown)
                  /\ UNCHANGED <<attempts, delays, extractions>>
             ELSE IF ResponseFailed(o)
             THEN /\ Fail(a, ErrorOf(TranslatedError(o)))
                  /\ UNCHANGED <<attempts, delays, extractions>>
             ELSE IF ~o.body.parsed
             THEN /\ Fail(a, JsonSyntaxError)
                  /\ UNCHANGED <<attempts, delays, extractions>>
             ELSE IF IsSucceeded(o.body)
             THEN /\ result' = [result EXCEPT ![a] =
                         Success(extractTextFromAnalysisResult(o.body.payload),
                                 extractStructuredData(o.body.payload))]
                  /\ extractions' = [extractions EXCEPT ![a] = @ + 1]
                  /\ pc' = [pc EXCEPT ![a] = "done"]
                  /\ UNCHANGED <<attempts, delays>>
             ELSE IF IsFailed(o.body)
             THEN /\ Fail(a, ErrorOf(AnalysisFailedMessage(o.body)))
                  /\ UNCHANGED <<attempts, delays, extractions>>
             ELSE /\ LoopHead(a, attempts[a])
                  /\ UNCHANGED extractions
    /\ UNCHANGED <<req, operationLocation, posts, gets, postOutcome>>

-----------------------------------------------------------------------------
(* The POST handler (route.ts:253-320)                                     *)

\* route.ts:270, 277  the messages of the two 400 responses
MsgFileInfoMissing == <<"file-information-missing">>
MsgCredentialsMissing == <<"azure-api-key-and-endpoint-required">>

\* The body of the HTTP request as request.json() gives it: parsed = FALSE
\* when json() rejects; a member that is absent or empty is "" or << >>.
HttpBodies ==
    [received : {TRUE}, parsed : {TRUE}, fileBase64 : Documents \cup {""},
     fileName : {"", "form.pdf"}, fileType : FileTypes,
     azureApiKey : {KeyA, KeyShort, KeyEmpty},
     azureEndpoint : {EpSlash, EpNotUrl, EpEmpty},
     modelId : {ModelBlank, ModelRead}, gemmaModelPath : {<< >>, <<"/", "models", "/", "gemma">>}]
NoHttpRequest ==
    [received |-> FALSE, parsed |-> FALSE, fileBase64 |-> "", fileName |-> "",
     fileType |-> "", azureApiKey |-> << >>, azureEndpoint |-> << >>,
     modelId |-> << >>, gemmaModelPath |-> << >>]

\* A response of the handler: status 0 stands for none returned yet; a
\* member that the JSON body does not have is << >>, formattedContent null
\* is isNull = TRUE.
NullFormatted == [isNull |-> TRUE, text |-> << >>]
NoHttpResponse ==
    [status |-> 0, error |-> << >>, content |-> << >>,
     formattedContent |-> NullFormatted]
ErrorReply(status, message) ==
    [NoHttpResponse EXCEPT !.status = status, !.error = message]

\* route.ts:283-290  the arguments the handler calls analyzeDocument with
AnalysisRequest(body) ==
    [fileBase64 |-> body.fileBase64, fileType |-> body.fileType,
     apiKey |-> body.azureApiKey, endpoint |-> body.azureEndpoint,
     modelId |-> IF body.modelId = << >> THEN <<"prebuilt-layout">>
                 ELSE body.modelId]

\* The credential check made before the file check
MissingFieldCredentialsFirst(body) ==
    IF body.azureApiKey = << >> \/ body.azureEndpoint = << >>
    THEN MsgCredentialsMissing
    ELSE IF body.fileBase64 = "" \/ body.fileName = "" \/ body.fileType = ""
    THEN MsgFileInfoMissing
    ELSE << >>

\* route.ts:268-280  the message of the 400 response, << >> when every
\* required member is there
MissingField(body) ==
    IF body.fileBase64 = "" \/ body.fileName = "" \/ body.fileType = ""
    THEN MsgFileInfoMissing
    ELSE IF body.azureApiKey = << >> \/ body.azureEndpoint = << >>
    THEN MsgCredentialsMissing
    ELSE << >>

\* The formatter run whenever a model path is given, also on an empty text
ShouldFormatAnyText(body, extractedText) ==
    body.gemmaModelPath # << >>

\* route.ts:304  both the model path and the extracted text are truthy
ShouldFormat(body, extractedText) ==
    body.gemmaModelPath # << >> /\ extractedText # << >>

\* route.ts:292-312  what the handler returns once analyzeDocument resolved
Reply(analysisResult, body) ==
    IF ~analysisResult.success
    THEN ErrorReply(500, analysisResult.error)
    ELSE [status |-> 200, error |-> << >>,
          content |-> analysisResult.content,
          formattedContent |->
              IF ShouldFormat(body, analysisResult.content)
              THEN [isNull |-> FALSE,
                    text |-> formatTextWithGemma(analysisResult.content)]
              ELSE NullFormatted]

HandlerInit ==
    /\ httpRequest = [a \in Tasks |-> NoHttpRequest]
    /\ httpResponse = [a \in Tasks |-> NoHttpResponse]
    /\ formatCalls = [a \in Tasks |-> << >>]

\* No helper is called on its own
NoCall == [fn |-> "none"]
NotReturned == [done |-> FALSE]
Init ==
    AnalysisInit /\ HandlerInit /\ called = NoCall /\ returned = NotReturned

\* The handler resumes in the microtask in which analyzeDocument resolves,
\* before any other response or timer is handled: its return is part of
\* the step that ends the analysis.  The call of the formatter (route.ts:305)
\* is made on the way to the 200 response, after the check of line 292.
Resume(a, body) ==
    /\ httpResponse' = [httpResponse EXCEPT ![a] =
                            IF pc'[a] = "done" THEN Reply(result'[a], body)
                            ELSE @]
    /\ formatCalls' = [formatCalls EXCEPT ![a] =
                           IF /\ pc'[a] = "done" /\ result'[a].success
                              /\ ShouldFormat(body, result'[a].content)
                           THEN Append(@, result'[a].content)
                           ELSE @]

\* route.ts:253-290, 313-319  a request arrives
Receive(a, bodies) ==
    /\ pc[a] = "idle"
    /\ ~httpRequest[a].received
    /\ \E body \in bodies :
          /\ httpRequest' = [httpRequest EXCEPT ![a] = body]
          /\ IF ~body.parsed
             THEN /\ httpResponse' = [httpResponse EXCEPT ![a] =
                         ErrorReply(500, humanizeErrorMessage(JsonSyntaxError))]
                  /\ UNCHANGED <<avars, formatCalls>>
             ELSE IF MissingField(body) # << >>
             THEN /\ httpResponse' = [httpResponse EXCEPT ![a] =
                         ErrorReply(400, MissingField(body))]
                  /\ UNCHANGED <<avars, formatCalls>>
             ELSE /\ Start(a, {AnalysisRequest(body)})
                  /\ Resume(a, body)
    /\ UNCHANGED fvars

\* A step of the analysis the handler awaits
Awaited(a, step) ==
    /\ httpRequest[a].received
    /\ step
    /\ Resume(a, httpRequest[a])
    /\ UNCHANGED <<httpRequest, fvars>>

\* One request served by the handler
HandlerNext ==
    \/ Receive(1, HttpBodies \cup {[NoHttpRequest EXCEPT !.received = TRUE]})
    \/ Awaited(1, PostResponds(1, PostOutcomes(1)))
    \/ Awaited(1, DelayElapses(1))
    \/ Awaited(1, GetResponds(1, PollOutcomes))

HandlerSpec == Init /\ [][HandlerNext]_vars

\* One analysis, with every request and every response of the service
Next ==
    \/ Start(1, Requests) /\ UNCHANGED <<hvars, fvars>>
    \/ PostResponds(1, PostOutcomes(1)) /\ UNCHANGED <<hvars, fvars>>
    \/ DelayElapses(1) /\ UNCHANGED <<hvars, fvars>>
    \/ GetResponds(1, PollOutcomes) /\ UNCHANGED <<hvars, fvars>>

Spec == Init /\ [][Next]_vars

\* Every network call and every timer eventually completes, and a request
\* that arrived is eventually served.
FairSpec == Spec /\ WF_vars(Next)

\* NumTasks analyses interleaved at their suspension points
ConcNext ==
    \E a \in Tasks :
        \/ Start(a, ConcRequests(a)) /\ UNCHANGED <<hvars, fvars>>
        \/ PostResponds(a, ConcPostOutcomes(a)) /\ UNCHANGED <<hvars, fvars>>
        \/ DelayElapses(a) /\ UNCHANGED <<hvars, fvars>>
        \/ GetResponds(a, ConcPollOutcomes) /\ UNCHANGED <<hvars, fvars>>

ConcSpec == Init /\ [][ConcNext]_vars

\* One analysis of a valid request that the service accepts and reports as
\* succeeded at the first poll, with every raw result: the two extractors
\* applied where the program applies them (route.ts:112 and 115)
ExtractRequest ==
    [fileBase64 |-> "JVBERi0xLjQ=", fileType |-> "application/pdf",
     apiKey |-> KeyA, endpoint |-> EpSlash, modelId |-> ModelBlank]
ExtractNext ==
    \/ Start(1, {ExtractRequest}) /\ UNCHANGED <<hvars, fvars>>
    \/ PostResponds(1, {Accepted(EmptyBody, HeaderOf(Handle(1)))})
           /\ UNCHANGED <<hvars, fvars>>
    \/ DelayElapses(1) /\ UNCHANGED <<hvars, fvars>>
    \/ GetResponds(1, {Status("succeeded", NoServiceErrors, d) :
                           d \in RawResults(MaxCells)})
           /\ UNCHANGED <<hvars, fvars>>

ExtractSpec == Init /\ [][ExtractNext]_vars

\* normalizeAzureEndpoint called on its own, with every endpoint of up to
\* MaxEndpointLen tokens in which no two chunks are adjacent (two adjacent
\* chunks are one chunk)
EndpointChunks == {"https", "x.cognitiveservices.azure.com"}
RECURSIVE EndpointsOfLen(_)
EndpointsOfLen(n) ==
    IF n = 0 THEN {<< >>}
    ELSE {Append(e, t) :
             e \in EndpointsOfLen(n - 1), t \in {":", "/"}}
         \cup {Append(e, t) :
                  e \in {d \in EndpointsOfLen(n - 1) :
                            d = << >> \/ d[Len(d)] \notin EndpointChunks},
                  t \in EndpointChunks}
GeneratedEndpoints(maxLen) == UNION {EndpointsOfLen(n) : n \in 0..maxLen}
NormalizeInit ==
    /\ AnalysisInit /\ HandlerInit
    /\ called \in {[fn |-> "normalizeAzureEndpoint", endpoint |-> e] :
                       e \in GeneratedEndpoints(MaxEndpointLen)}
    /\ returned = NotReturned
Normalize ==
    /\ called.fn = "normalizeAzureEndpoint" /\ ~returned.done
    /\ returned' = [done |-> TRUE,
                    value |-> normalizeAzureEndpoint(called.endpoint)]
    /\ UNCHANGED <<avars, hvars, called>>

NormalizeSpec == NormalizeInit /\ [][Normalize]_vars

\* extractAzureErrorInfo called on its own, with every status and body
TranslateCalls ==
    {[fn |-> "extractAzureErrorInfo",
      response |-> [status |-> st,
                    statusText |-> <<"Error", " ", StatusText(st)>>],
      responseBody |-> BodyOf(e)] :
        st \in {400, 401, 403, 404, 429, 500, 503},
        e \in {NoError, ErrorXY, ErrorCodeOnly, ErrorMessageOnly, ErrorText,
               ErrorEmptyString, ErrorNumber, ErrorZero, ErrorNull,
               ErrorRaising}}
TranslateInit ==
    /\ AnalysisInit /\ HandlerInit
    /\ called \in TranslateCalls /\ returned = NotReturned
Translate ==
    /\ called.fn = "extractAzureErrorInfo" /\ ~returned.done
    /\ returned' = [done |-> TRUE,
                    value |-> extractAzureErrorInfo(called.response,
                                                    called.responseBody)]
    /\ UNCHANGED <<avars, hvars, called>>

TranslateSpec == TranslateInit /\ [][Translate]_vars

-----------------------------------------------------------------------------
(* What the service answered, read off the recorded responses              *)

OkResponse(o) == o.kind = "response" /\ o.ok
ErrorResponse(o) == o.kind = "response" /\ ~o.ok
SucceededPoll(o) == OkResponse(o) /\ o.body.parsed /\ o.body.status = "succeeded"
FailedPoll(o) == OkResponse(o) /\ o.body.parsed /\ o.body.status = "failed"

\* The analysis ended in the catch block with an Error of message msg
FailedWith(a, msg) ==
    /\ pc[a] = "done"
    /\ result[a] = [success |-> FALSE, content |-> << >>,
                    structuredData |-> NullStructured, error |-> msg]

\* The message part_000:130-166 gives for response o
Translation(o) ==
    extractAzureErrorInfo([status |-> o.status, statusText |-> o.statusText],
                          [error |-> IF o.body.parsed THEN o.body.error
                                     ELSE NoError])

-----------------------------------------------------------------------------
(* Claims                                                                  *)

\* C1: when the first k-1 polls are OK with a non-terminal status and the
\* k-th is OK with "succeeded" (k in 1..10), the analysis succeeds after
\* exactly k polls with exactly one text extraction, made at the k-th poll;
\* after fewer than 10 polls that were all non-terminal the loop goes on;
\* after 10 non-terminal polls the analysis fails with the timeout error
\* after exactly 10 polls and without any extraction.
C1_PollingVerdict ==
    \A a \in Tasks :
        /\ (/\ pollsSeen[a] \in 1..10
            /\ pendingSeen[a] = pollsSeen[a] - 1
            /\ SucceededPoll(pollOutcome[a]))
           => /\ pc[a] = "done"
              /\ result[a].success
              /\ Len(gets[a]) = pollsSeen[a]
              /\ extractions[a] = 1
        /\ (pollsSeen[a] \in 1..9 /\ pendingSeen[a] = pollsSeen[a])
           => /\ pc[a] \in {"awaitDelay", "awaitGet"}
              /\ extractions[a] = 0
        /\ (pollsSeen[a] = 10 /\ pendingSeen[a] = 10)
           => /\ FailedWith(a, MsgTimeout)
              /\ Len(gets[a]) = 10
              /\ extractions[a] = 0

\* A "succeeded" on the tenth poll, after nine non-terminal ones
C1_Witness ==
    /\ pollsSeen[1] = 10 /\ pendingSeen[1] = 9
    /\ SucceededPoll(pollOutcome[1])
    /\ result[1].success /\ extractions[1] = 1

\* The counts of timers and GETs in every state, and in every step
C2_State ==
    \A a \in Tasks :
        /\ Len(gets[a]) <= 10
        /\ delays[a] = attempts[a]
        /\ Len(gets[a]) <= delays[a]
        /\ delays[a] <= Len(gets[a]) + 1
        /\ pc[a] = "awaitDelay" => delays[a] = Len(gets[a]) + 1
        /\ pc[a] = "awaitGet" => delays[a] = Len(gets[a])

C2_Step ==
    \A a \in Tasks :
        /\ Len(gets'[a]) > Len(gets[a])
           => /\ pc[a] = "awaitDelay"
              /\ Len(gets'[a]) = Len(gets[a]) + 1
              /\ delays'[a] = delays[a]
              /\ delays[a] = Len(gets[a]) + 1
        /\ delays'[a] > delays[a]
           => /\ pc[a] \in {"awaitPost", "awaitGet"}
              /\ pc'[a] = "awaitDelay"
              /\ delays'[a] = delays[a] + 1
              /\ gets'[a] = gets[a]
              /\ delays[a] = Len(gets[a])

\* C2: at most 10 status GETs are issued; the timers started are as many as
\* the attempt counter says; every GET is issued when the timer of its
\* attempt fires, and that timer was started when the previous network call
\* (the submission or the previous GET) had completed.
C2_DelayBeforeEveryGet == [] C2_State /\ [][C2_Step]_vars

\* The tenth GET is out, after ten timers
C2_Witness == Len(gets[1]) = 10 /\ delays[1] = 10 /\ pc[1] = "awaitGet"

\* The analysis was refused at entry with message msg: no POST, no GET, no
\* timer, nothing received
RefusedAtEntry(a, msg) ==
    /\ FailedWith(a, msg)
    /\ posts[a] = << >> /\ gets[a] = << >> /\ delays[a] = 0
    /\ extractions[a] = 0
    /\ postOutcome[a] = NoOutcome /\ pollOutcome[a] = NoOutcome

\* C3: a request whose file type, API key or endpoint is invalid ends in
\* failure without any network call or timer, and the error is that of the
\* first failing check in the order file type, API key, endpoint.
C3_EntryGuardOrder ==
    \A a \in Tasks :
        pc[a] # "idle" =>
            LET r == req[a]
                n == normalizeAzureEndpoint(r.endpoint)
            IN  /\ ~validateFileType(r.fileType)
                   => RefusedAtEntry(a, MsgUnsupportedFileType)
                /\ (validateFileType(r.fileType) /\ ~validateApiKey(r.apiKey))
                   => RefusedAtEntry(a, MsgInvalidApiKey)
                /\ (validateFileType(r.fileType) /\ validateApiKey(r.apiKey)
                    /\ ~n.ok)
                   => RefusedAtEntry(a, n.error)

\* All three checks would fail; the file type is the one reported
C3_Witness ==
    /\ pc[1] = "done"
    /\ ~validateFileType(req[1].fileType)
    /\ ~validateApiKey(req[1].apiKey)
    /\ ~normalizeAzureEndpoint(req[1].endpoint).ok
    /\ result[1].error = MsgUnsupportedFileType

\* C4: at most one submission POST per analysis; a submission response with
\* a non-success status ends the analysis at once with the translated error
\* of that response, with no second POST, no timer, no GET, no extraction.
C4_SubmissionFailure ==
    \A a \in Tasks :
        /\ Len(posts[a]) <= 1
        /\ ErrorResponse(postOutcome[a])
           => /\ FailedWith(a, Translation(postOutcome[a]))
              /\ Len(posts[a]) = 1
              /\ delays[a] = 0 /\ gets[a] = << >> /\ extractions[a] = 0

\* A 401 on submission, reported with the authentication message
C4_Witness ==
    /\ ErrorResponse(postOutcome[1]) /\ postOutcome[1].status = 401
    /\ pc[1] = "done" /\ result[1].error = Msg401

\* C5: a poll with a non-success status ends the analysis at once with the
\* translated error of that response; the GETs issued are exactly the polls
\* answered, no further timer or GET follows, and nothing is extracted.
C5_PollFailure ==
    \A a \in Tasks :
        ErrorResponse(pollOutcome[a])
        => /\ FailedWith(a, Translation(pollOutcome[a]))
           /\ Len(gets[a]) = pollsSeen[a]
           /\ delays[a] = pollsSeen[a]
           /\ pendingSeen[a] = pollsSeen[a] - 1
           /\ extractions[a] = 0

\* A 500 with a structured error body on the tenth poll
C5_Witness ==
    /\ ErrorResponse(pollOutcome[1]) /\ pollOutcome[1].status = 500
    /\ pollOutcome[1].body = BodyOf(ErrorXY)
    /\ pollsSeen[1] = 10 /\ pc[1] = "done"

\* C6: an OK poll with status "failed" ends the analysis at once with the
\* analysis-failed error carrying the errors of that response; no further
\* poll is issued, nothing is extracted, and the error is not the timeout
\* one, also on the tenth poll.
C6_AnalysisFailed ==
    \A a \in Tasks :
        FailedPoll(pollOutcome[a])
        => /\ FailedWith(a, MsgAnalysisFailedPrefix \o pollOutcome[a].body.errors)
           /\ result[a].error # MsgTimeout
           /\ Len(gets[a]) = pollsSeen[a]
           /\ delays[a] = pollsSeen[a]
           /\ extractions[a] = 0

\* "failed" with service errors on the tenth poll
C6_Witness ==
    /\ FailedPoll(pollOutcome[1]) /\ pollOutcome[1].body.errors = ServiceErrors
    /\ pollsSeen[1] = 10 /\ pc[1] = "done"

\* C7: a successful submission response without an Operation-Location
\* header ends the analysis with the missing-handle error, with no timer,
\* GET or extraction; a timer or GET exists only when a non-empty handle
\* was read from the submission response.
C7_MissingHandle ==
    \A a \in Tasks :
        /\ (OkResponse(postOutcome[a])
            /\ (~postOutcome[a].header.present
                \/ postOutcome[a].header.value = << >>))
           => /\ FailedWith(a, MsgMissingOperationLocation)
              /\ delays[a] = 0 /\ gets[a] = << >> /\ extractions[a] = 0
        /\ (delays[a] > 0 \/ gets[a] # << >>)
           => /\ OkResponse(postOutcome[a])
              /\ postOutcome[a].header.present
              /\ postOutcome[a].header.value # << >>
              /\ operationLocation[a] = postOutcome[a].header.value

\* What has happened before a GET and an extraction, in states and steps
C8_State ==
    \A a \in Tasks :
        /\ gets[a] # << >>
           => /\ Len(posts[a]) = 1
              /\ OkResponse(postOutcome[a])
        /\ extractions[a] > 0
           => /\ extractions[a] = 1
              /\ SucceededPoll(pollOutcome[a])
              /\ pc[a] = "done" /\ result[a].success
        /\ (pc[a] = "done" /\ ~result[a].success) => extractions[a] = 0

C8_Step ==
    \A a \in Tasks :
        /\ gets'[a] # gets[a] => OkResponse(postOutcome[a])
        /\ extractions'[a] # extractions[a]
           => /\ pc[a] = "awaitGet"
              /\ SucceededPoll(pollOutcome'[a])
              /\ pollsSeen'[a] = pollsSeen[a] + 1
        /\ extractions[a] > 0 => (posts'[a] = posts[a] /\ gets'[a] = gets[a])

\* C8: a status GET is issued only after the submission POST returned
\* successfully; extraction happens only at a poll that returned
\* "succeeded", never in an analysis that failed or timed out; and no
\* network call is issued after extraction.
C8_CausalOrder == [] C8_State /\ [][C8_Step]_vars

\* Extraction at the third poll of a submitted analysis
C8_Witness ==
    /\ extractions[1] = 1 /\ Len(gets[1]) = 3 /\ Len(posts[1]) = 1
    /\ SucceededPoll(pollOutcome[1])

\* The terminal outcome of a finished analysis
Outcome(a) ==
    IF result[a].success THEN "Succeeded"
    ELSE IF result[a].error = MsgTimeout THEN "TimedOut"
    ELSE "Failed"

C9_State ==
    \A a \in Tasks :
        /\ Len(posts[a]) <= 1
        /\ Len(gets[a]) <= 10
        /\ pc[a] = "done" <=> result[a] # NoResult
        /\ pc[a] = "done" =>
              /\ Outcome(a) = "Succeeded" <=> SucceededPoll(pollOutcome[a])
              /\ Outcome(a) = "TimedOut" <=> pendingSeen[a] = 10

C9_Step ==
    \A a \in Tasks :
        pc[a] = "done"
        => /\ pc'[a] = "done"
           /\ result'[a] = result[a]
           /\ posts'[a] = posts[a] /\ gets'[a] = gets[a]
           /\ delays'[a] = delays[a]

\* C9: when every network call and timer completes, every started analysis
\* reaches a terminal outcome (Succeeded, Failed or TimedOut) after at most
\* one POST and at most 10 GETs; the outcome then never changes and no
\* further network call or timer follows.
C9_Termination ==
    /\ \A a \in Tasks : (pc[a] # "idle") ~> (pc[a] = "done")
    /\ [] C9_State
    /\ [][C9_Step]_vars

\* An analysis that timed out after its ten polls
C9_Witness ==
    /\ pc[1] = "done" /\ Outcome(1) = "TimedOut"
    /\ Len(posts[1]) = 1 /\ Len(gets[1]) = 10

\* What one analysis alone makes of a sequence of poll responses, n polls
\* made before it: the verdict and the number of polls (-1 when the script
\* ends before the analysis does)
RECURSIVE AlonePolling(_, _)
AlonePolling(script, n) ==
    IF n = 10
    THEN [success |-> FALSE, error |-> MsgTimeout, polls |-> n,
          doc |-> NoPayload]
    ELSE IF script = << >>
    THEN [success |-> FALSE, error |-> << >>, polls |-> -1, doc |-> NoPayload]
    ELSE LET o == Head(script) IN
         IF o.kind = "throw"
         THEN [success |-> FALSE, error |-> humanizeErrorMessage(o.thrown),
               polls |-> n + 1, doc |-> NoPayload]
         ELSE IF ErrorResponse(o)
         THEN [success |-> FALSE, error |-> Translation(o), polls |-> n + 1,
               doc |-> NoPayload]
         ELSE IF ~o.body.parsed
         THEN [success |-> FALSE, error |-> JsonSyntaxError.message,
               polls |-> n + 1, doc |-> NoPayload]
         ELSE IF SucceededPoll(o)
         THEN [success |-> TRUE, error |-> << >>, polls |-> n + 1,
               doc |-> o.body.payload]
         ELSE IF FailedPoll(o)
         THEN [success |-> FALSE,
               error |-> MsgAnalysisFailedPrefix \o o.body.errors,
               polls |-> n + 1, doc |-> NoPayload]
         ELSE AlonePolling(Tail(script), n + 1)

\* The same for a whole analysis: request r, submission response post
AloneVerdict(r, post, script) ==
    LET refuse(msg) == [success |-> FALSE, error |-> msg, polls |-> 0,
                        doc |-> NoPayload]
        n == normalizeAzureEndpoint(r.endpoint)
    IN  IF ~validateFileType(r.fileType) THEN refuse(MsgUnsupportedFileType)
        ELSE IF ~validateApiKey(r.apiKey) THEN refuse(MsgInvalidApiKey)
        ELSE IF ~n.ok THEN refuse(n.error)
        ELSE IF post.kind = "throw" THEN refuse(humanizeErrorMessage(post.thrown))
        ELSE IF ErrorResponse(post) THEN refuse(Translation(post))
        ELSE IF ~post.body.parsed THEN refuse(JsonSyntaxError.message)
        ELSE IF ~post.header.present \/ post.header.value = << >>
        THEN refuse(MsgMissingOperationLocation)
        ELSE AlonePolling(script, 0)

\* The poll responses analysis a has received: the non-terminal ones, then
\* the latest
ScriptOf(a) ==
    [i \in 1..pollsSeen[a] |->
        IF i < pollsSeen[a] THEN Status("running", NoServiceErrors, NoPayload)
        ELSE pollOutcome[a]]

\* All that belongs to analysis a
Frame(a) ==
    <<pc[a], req[a], operationLocation[a], attempts[a], result[a], posts[a],
      gets[a], delays[a], extractions[a], postOutcome[a], pollOutcome[a],
      pollsSeen[a], pendingSeen[a]>>

C10_State ==
    \A a \in Tasks :
        /\ \A i \in 1..Len(posts[a]) :
              /\ posts[a][i].key = req[a].apiKey
              /\ posts[a][i].body = req[a].fileBase64
        /\ \A i \in 1..Len(gets[a]) :
              /\ gets[a][i].url = postOutcome[a].header.value
              /\ gets[a][i].url = Handle(a)
              /\ gets[a][i].key = req[a].apiKey
        /\ attempts[a] = delays[a]
        /\ pendingSeen[a] >= pollsSeen[a] - 1
        /\ pc[a] = "done" =>
              LET v == AloneVerdict(req[a], postOutcome[a], ScriptOf(a)) IN
              /\ result[a].success = v.success
              /\ result[a].error = v.error
              /\ Len(gets[a]) = v.polls
              /\ v.success =>
                    result[a].content = extractTextFromAnalysisResult(v.doc)

C10_Step ==
    \A a, b \in Tasks :
        (a # b /\ Frame(a)' # Frame(a)) => Frame(b)' = Frame(b)

\* C10: analyses that interleave at their suspension points each keep their
\* own attempt counter, handle and result: an analysis sends its own API
\* key, polls only the handle its own submission returned, is not changed
\* by a step of another analysis, and ends with the outcome and the number
\* of polls it would have had alone on the responses it received, also when
\* the analyses are for the same document.
C10_Independence == [] C10_State /\ [][C10_Step]_vars

\* Two analyses of the same document suspended in the middle of their
\* loops, with their own keys, handles and attempt counters
C10_Witness ==
    /\ pc[1] = "awaitDelay" /\ attempts[1] = 3
    /\ pc[2] = "awaitGet" /\ attempts[2] = 7
    /\ req[1].fileBase64 = req[2].fileBase64
    /\ req[1].apiKey # req[2].apiKey
    /\ operationLocation[1] = Handle(1) /\ operationLocation[2] = Handle(2)

\* What C11 is about, read off the request body and the response
FileFieldMissing(b) == b.fileBase64 = "" \/ b.fileName = "" \/ b.fileType = ""
CredentialMissing(b) == b.azureApiKey = << >> \/ b.azureEndpoint = << >>
NothingStarted(a) ==
    /\ pc[a] = "idle" /\ req[a] = NoRequest /\ result[a] = NoResult
    /\ posts[a] = << >> /\ gets[a] = << >> /\ delays[a] = 0
C11_State ==
    \A a \in Tasks :
        LET b == httpRequest[a]
            r == httpResponse[a]
        IN  /\ r.status \in {0, 200, 400, 500}
            /\ ~b.received => r = NoHttpResponse
            /\ b.received /\ b.parsed /\ FileFieldMissing(b) =>
                   /\ r = [NoHttpResponse EXCEPT !.status = 400,
                                                 !.error = MsgFileInfoMissing]
                   /\ NothingStarted(a)
            /\ b.received /\ b.parsed /\ ~FileFieldMissing(b)
                  /\ CredentialMissing(b) =>
                   /\ r = [NoHttpResponse EXCEPT !.status = 400,
                                                 !.error = MsgCredentialsMissing]
                   /\ NothingStarted(a)
            /\ b.received /\ b.parsed /\ ~FileFieldMissing(b)
                  /\ ~CredentialMissing(b) =>
                   /\ pc[a] # "idle"
                   /\ pc[a] # "done" => r = NoHttpResponse
                   /\ pc[a] = "done" /\ ~result[a].success =>
                          r = [NoHttpResponse EXCEPT !.status = 500,
                                                    !.error = result[a].error]
                   /\ pc[a] = "done" /\ result[a].success =>
                          /\ r.status = 200 /\ r.error = << >>
                          /\ r.content = result[a].content
            /\ r.status = 200 => pc[a] = "done" /\ result[a].success
            /\ r.status = 400 => FileFieldMissing(b) \/ CredentialMissing(b)
C11_Step ==
    \A a \in Tasks :
        httpResponse[a].status # 0 =>
            /\ httpResponse'[a] = httpResponse[a]
            /\ posts'[a] = posts[a] /\ gets'[a] = gets[a]

Threw(o) == o.kind = "throw"
UnreadableBody(o) == OkResponse(o) /\ ~o.body.parsed
C12_State ==
    \A a \in Tasks :
        /\ pc[a] = "done" => result[a].success \/ result[a].error # << >>
        /\ Threw(postOutcome[a]) =>
               /\ FailedWith(a, humanizeErrorMessage(postOutcome[a].thrown))
               /\ postOutcome[a].thrown.t = "undefined" =>
                      result[a].error = MsgUnknownError
               /\ Len(posts[a]) = 1 /\ gets[a] = << >> /\ delays[a] = 0
        /\ UnreadableBody(postOutcome[a]) =>
               /\ FailedWith(a, humanizeErrorMessage(JsonSyntaxError))
               /\ Len(posts[a]) = 1 /\ gets[a] = << >> /\ delays[a] = 0
        /\ Threw(pollOutcome[a]) =>
               /\ FailedWith(a, humanizeErrorMessage(pollOutcome[a].thrown))
               /\ pollOutcome[a].thrown.t = "undefined" =>
                      result[a].error = MsgUnknownError
               /\ Len(gets[a]) = pollsSeen[a] /\ delays[a] = pollsSeen[a]
        /\ UnreadableBody(pollOutcome[a]) =>
               /\ FailedWith(a, humanizeErrorMessage(JsonSyntaxError))
               /\ Len(gets[a]) = pollsSeen[a] /\ delays[a] = pollsSeen[a]
C12_Step ==
    \A a \in Tasks :
        pc[a] = "done" /\ ~result[a].success =>
            /\ pc'[a] = "done" /\ result'[a] = result[a]
            /\ posts'[a] = posts[a] /\ gets'[a] = gets[a]
            /\ delays'[a] = delays[a]

\* C12: analyzeDocument never lets an exception out: when fetch rejects or
\* the body of an ok response cannot be parsed, at the submission or at a
\* poll, the call resolves to a failure whose error is the string
\* humanizeErrorMessage gives for the caught value (the unknown-error string
\* when nothing was caught), and no network call or timer follows a
\* failure.
C12_FailuresAreResults == []C12_State /\ [][C12_Step]_vars

\* A status GET rejected with undefined and the analysis failed with the
\* unknown-error string.
C12_Witness ==
    /\ Threw(pollOutcome[1]) /\ pollOutcome[1].thrown.t = "undefined"
    /\ FailedWith(1, MsgUnknownError)

-----------------------------------------------------------------------------
(* The extractors, on the raw result of the succeeded poll                 *)

\* The raw result analysis a extracted from, and whether it did
Extracted(a) == SucceededPoll(pollOutcome[a]) /\ pc[a] = "done"
RawOf(a) == pollOutcome[a].body.payload.analyzeResult

\* The grid of the claim: the value at (r, c) is the content of the last
\* cell of the list with those indices, empty when there is none.
ValueAt(table, r, c) ==
    LET hits == {i \in 1..Len(table.cells) :
                    /\ table.cells[i].rowIndex = r
                    /\ table.cells[i].columnIndex = c}
    IN  IF hits = {} THEN << >>
        ELSE table.cells[CHOOSE i \in hits : \A j \in hits : j <= i].content
RECURSIVE GridRow(_, _, _)
GridRow(table, r, c) ==
    IF c >= table.columnCount THEN << >>
    ELSE ValueAt(table, r, c)
             \o (IF c + 1 < table.columnCount THEN <<" ", "|", " ">> ELSE << >>)
             \o GridRow(table, r, c + 1)
RECURSIVE GridLines(_, _)
GridLines(table, r) ==
    IF r >= table.rowCount THEN << >>
    ELSE GridRow(table, r, 0) \o <<NL>> \o GridLines(table, r + 1)
RECURSIVE GridTables(_, _)
GridTables(tables, i) ==
    IF tables = << >> THEN << >>
    ELSE <<"table", " ", IndexText(i), ":", NL>> \o GridLines(Head(tables), 0)
             \o <<NL>> \o GridTables(Tail(tables), i + 1)

\* C13: whenever text extraction does not fall back, each table of the
\* result is rendered as exactly rowCount lines of exactly columnCount
\* values joined by " | ", the value at (r, c) being the content of the last
\* cell with those indices and empty when there is none: the extracted text
\* is the page sections, the table section made of these lines and the
\* form-field section, trimmed.
C13_TableRendering ==
    \A a \in Tasks :
        Extracted(a) /\ result[a].content # MsgExtractFallback
            /\ RawOf(a).tables # << >> =>
            result[a].content =
                trim(PagesText(RawOf(a).pages) \o TableSectionHeader
                     \o GridTables(RawOf(a).tables, 1)
                     \o (IF RawOf(a).keyValuePairs # << >>
                         THEN FieldSectionHeader
                                  \o PairsText(RawOf(a).keyValuePairs) \o <<NL>>
                         ELSE << >>))

\* A raw result on which the code of route.ts:134-198 raises: pages that
\* cannot be iterated, a negative count (Array() raises a RangeError), or a
\* cell whose rowIndex names no row of the grid (a TypeError at line 172;
\* with a missing rowCount the grid has no row at all).
Malformed(raw) ==
    \/ ~raw.isArray
    \/ \E i \in 1..Len(raw.tables) :
          LET table == raw.tables[i] IN
          \/ table.rowCount < 0 \/ table.columnCount < 0
          \/ \E j \in 1..Len(table.cells) :
                \/ table.cells[j].rowIndex < 0
                \/ table.cells[j].rowIndex >= table.rowCount

\* C14: on every succeeded result, malformed ones included (a cell whose
\* rowIndex is not below rowCount, a missing rowCount), text extraction
\* returns a string and raises nothing: when it fails inside it returns the
\* fixed fallback string, and the analysis still succeeds, with that string
\* as its content.
C14_ExtractionNeverRaises ==
    \A a \in Tasks :
        SucceededPoll(pollOutcome[a]) =>
            /\ pc[a] = "done" /\ result[a].success /\ result[a].error = << >>
            /\ extractions[a] = 1
            /\ result[a].content \in Seq(STRING)
            /\ Malformed(RawOf(a)) => result[a].content = MsgExtractFallback

\* A table without rowCount but with a cell made the extraction fall back,
\* and the analysis succeeded with the fallback string.
C14_Witness ==
    /\ Extracted(1) /\ result[1].success
    /\ result[1].content = MsgExtractFallback
    /\ RawOf(1).isArray /\ Len(RawOf(1).tables) = 1
    /\ RawOf(1).tables[1].rowCount = 0 /\ RawOf(1).tables[1].cells # << >>

\* Where the marker m occurs in text, and the section headers as markers
Places(text, m) ==
    {i \in 1..Len(text) :
        /\ i + Len(m) - 1 <= Len(text)
        /\ SubSeq(text, i, i + Len(m) - 1) = m}
PageMark == <<"=====", " ", "page">>
TableMark == <<"=====", " ", "table", " ", "=====">>
FieldMark == <<"=====", " ", "form-fields", " ", "=====">>

\* The line "label: value" stands in text after place from; the end of the
\* text may have taken its trailing blank.
Listed(text, label, value, from) ==
    LET line == label \o <<":", " ">> \o value
        kept == IF value = << >> THEN label \o <<":">> ELSE line
    IN  \E i \in Places(text, kept) :
            /\ i > from
            /\ \/ i + Len(kept) - 1 = Len(text)
               \/ /\ i + Len(line) <= Len(text)
                  /\ SubSeq(text, i, i + Len(line)) = line \o <<NL>>

SectionLayout(raw, text) ==
    /\ Cardinality(Places(text, PageMark)) = Len(raw.pages)
    /\ Places(text, TableMark) # {} <=> Len(raw.tables) >= 1
    /\ Places(text, FieldMark) # {} <=> Len(raw.keyValuePairs) >= 1
    /\ Cardinality(Places(text, TableMark)) <= 1
    /\ Cardinality(Places(text, FieldMark)) <= 1
    /\ \A p \in Places(text, PageMark) :
           \A t \in Places(text, TableMark) \cup Places(text, FieldMark) : p < t
    /\ \A t \in Places(text, TableMark) : \A f \in Places(text, FieldMark) : t < f
    /\ \A f \in Places(text, FieldMark) :
           \A i \in 1..Len(raw.keyValuePairs) :
               LET pair == raw.keyValuePairs[i] IN
               Listed(text, IF pair.key = << >> THEN UnknownField ELSE pair.key,
                      pair.value, f)

StructureRaises(raw) ==
    \/ ~raw.isArray
    \/ \E i \in 1..Len(raw.pages) : ~raw.pages[i].linesIsArray

SameCell(cell, out) ==
    /\ out.rowIndex = cell.rowIndex /\ out.columnIndex = cell.columnIndex
    /\ out.content = cell.content
    /\ out.rowSpan = (IF cell.rowSpan = 0 THEN 1 ELSE cell.rowSpan)
    /\ out.columnSpan = (IF cell.columnSpan = 0 THEN 1 ELSE cell.columnSpan)
SameShape(raw, out) ==
    /\ ~out.isNull
    /\ Len(out.pages) = Len(raw.pages)
    /\ \A i \in 1..Len(raw.pages) :
          /\ out.pages[i].pageNumber = raw.pages[i].pageNumber
          /\ out.pages[i].width = raw.pages[i].width
          /\ out.pages[i].height = raw.pages[i].height
          /\ out.pages[i].unit = raw.pages[i].unit
          /\ Len(out.pages[i].lines) = Len(raw.pages[i].lines)
          /\ \A j \in 1..Len(raw.pages[i].lines) :
                out.pages[i].lines[j].content = raw.pages[i].lines[j].content
    /\ Len(out.tables) = Len(raw.tables)
    /\ \A i \in 1..Len(raw.tables) :
          /\ out.tables[i].rowCount = raw.tables[i].rowCount
          /\ out.tables[i].columnCount = raw.tables[i].columnCount
          /\ Len(out.tables[i].cells) = Len(raw.tables[i].cells)
          /\ \A j \in 1..Len(raw.tables[i].cells) :
                SameCell(raw.tables[i].cells[j], out.tables[i].cells[j])
    /\ Len(out.keyValuePairs) = Len(raw.keyValuePairs)
    /\ \A i \in 1..Len(raw.keyValuePairs) :
          /\ out.keyValuePairs[i].key = raw.keyValuePairs[i].key
          /\ out.keyValuePairs[i].value = raw.keyValuePairs[i].value

\* C20: on every raw result on which it does not raise, structured
\* extraction returns as many pages, tables, cells per table and key-value
\* pairs as the input has, in the same order, with page number, dimensions,
\* unit, line contents, cell indices and contents copied and rowSpan and
\* columnSpan 1 when absent; when it raises it returns null, and the
\* analysis succeeds all the same with its extracted text.
C20_StructuredMapping ==
    \A a \in Tasks :
        Extracted(a) =>
            /\ result[a].success
            /\ result[a].content = MsgExtractFallback <=> Malformed(RawOf(a))
            /\ IF StructureRaises(RawOf(a))
               THEN result[a].structuredData = NullStructured
               ELSE SameShape(RawOf(a), result[a].structuredData)

\* A table whose cells have a rowSpan of 2 and none, and a columnSpan of 3
\* and none, came out with spans 2, 1, 1 and 3.
C20_Witness ==
    /\ Extracted(1) /\ RawOf(1).tables = <<TableSpans>>
    /\ ~result[1].structuredData.isNull
    /\ result[1].structuredData.tables[1].cells[1].rowSpan = 2
    /\ result[1].structuredData.tables[1].cells[1].columnSpan = 1
    /\ result[1].structuredData.tables[1].cells[2].rowSpan = 1
    /\ result[1].structuredData.tables[1].cells[2].columnSpan = 3

-----------------------------------------------------------------------------
(* extractAzureErrorInfo on its own                                        *)

FixedStatuses == {401, 403, 404, 429}
FixedMessage(status) ==
    CASE status = 401 -> Msg401 [] status = 403 -> Msg403
      [] status = 404 -> Msg404 [] OTHER -> Msg429

\* C15: the status is looked at before the body: 401, 403, 404 and 429 give
\* their fixed message whatever the body holds, a structured error with code
\* and message and a body whose inspection raises included; the body decides
\* the message only for the other statuses.
C15_StatusBeforeBody ==
    returned.done /\ called.fn = "extractAzureErrorInfo" =>
        /\ called.response.status \in FixedStatuses =>
               returned.value = FixedMessage(called.response.status)
        /\ called.response.status \notin FixedStatuses =>
               returned.value \notin {Msg401, Msg403, Msg404, Msg429}

\* A 401 whose body holds an error with code and message got the fixed
\* authentication message.
C15_Witness ==
    /\ returned.done /\ called.fn = "extractAzureErrorInfo"
    /\ called.response.status = 401
    /\ called.responseBody.error = ErrorXY
    /\ returned.value = Msg401

\* The chain of C18 for a status without a fixed message; present says
\* whether the body counts as holding an error.
ChainMessage(response, error, present) ==
    IF error.t = "raises"
    THEN MsgAzureError \o <<" ", "(", StatusText(response.status), ")">>
    ELSE IF error.t = "object" /\ error.hasCode /\ error.hasMessage
    THEN MsgAzureError \o <<" ", "(">> \o error.code \o <<")", ":", " ">>
             \o error.message
    ELSE IF present /\ error.t = "string"
    THEN MsgAzureError \o <<":", " ">> \o error.text
    ELSE IF present
    THEN MsgAzureError \o <<":", " ">> \o error.json
    ELSE MsgAzureError \o <<" ", "(", StatusText(response.status), ")", ":", " ">>
             \o response.statusText
Translated ==
    /\ returned.done /\ called.fn = "extractAzureErrorInfo"
    /\ called.response.status \notin FixedStatuses

\* C18 as stated: for a status other than 401, 403, 404 and 429 an error
\* object with code and message gives "<service> error (<code>): <message>",
\* else a string error gives the string wrapped, else an error that is
\* present gives its stringified form, else the message is
\* "<service> error (<status>): <statusText>"; a body whose inspection
\* raises gives the status-only message.
C18_ChainAsStated ==
    Translated =>
        returned.value =
            ChainMessage(called.response, called.responseBody.error,
                         called.responseBody.error.t # "absent")

\* The error members JavaScript takes as false: "", 0, false and null
Falsy(error) ==
    \/ error.t = "absent"
    \/ error.t = "string" /\ error.text = << >>
    \/ error.t = "other" /\ error.json \in {<<"0">>, <<"false">>, <<"null">>}

\* C18 amended: the chain as stated, where an error counts as present only
\* when it is truthy: an absent error and an error that is "", 0, false or
\* null give "<service> error (<status>): <statusText>".
C18_ChainOnTruthyError ==
    Translated =>
        returned.value =
            ChainMessage(called.response, called.responseBody.error,
                         ~Falsy(called.responseBody.error))

\* A 500 whose body holds the empty string as error got the message made of
\* status and statusText.
C18_Witness ==
    /\ Translated /\ called.response.status = 500
    /\ called.responseBody.error = ErrorEmptyString
    /\ returned.value = MsgAzureError
           \o <<" ", "(", "500", ")", ":", " ">> \o called.response.statusText

-----------------------------------------------------------------------------
(* normalizeAzureEndpoint on its own                                       *)

\* C17: normalizeAzureEndpoint fails with an invalid-endpoint error on the
\* empty input and on every input new URL does not parse; on every other
\* input it returns the input without its last character when that is "/"
\* and the input itself otherwise, so that an input ending in "//" keeps one
\* "/"; a host outside the standard service domain only gives the warning.
C17_Normalization ==
    returned.done /\ called.fn = "normalizeAzureEndpoint" =>
        LET e == called.endpoint
            n == returned.value
        IN  IF e = << >> \/ ~IsParseableUrl(e)
            THEN /\ ~n.ok
                 /\ n.error \in {MsgEndpointMissing, MsgEndpointInvalid}
            ELSE /\ n.ok /\ n.error = << >>
                 /\ e[Len(e)] = "/" => n.value = SubSeq(e, 1, Len(e) - 1)
                 /\ e[Len(e)] # "/" => n.value = e
                 /\ n.warn <=> hostname(e) # "x.cognitiveservices.azure.com"

\* An endpoint ending in "//" on a host outside the service domain was
\* returned with one "/" left, and with the warning.
C17_Witness ==
    /\ returned.done /\ called.fn = "normalizeAzureEndpoint"
    /\ called.endpoint = <<"https", ":", "/", "/", "https", "/", "/">>
    /\ returned.value.ok /\ returned.value.warn
    /\ returned.value.value = <<"https", ":", "/", "/", "https", "/">>
-----------------------------------------------------------------------------
(* The formatter step of the POST handler                                  *)

\* What C21 is about, read off the request, the analysis and the response
PathGiven(a) == httpRequest[a].gemmaModelPath # << >>
ExtractedText(a) ==
    extractTextFromAnalysisResult(pollOutcome[a].body.payload)
AnalysisSucceeded(a) ==
    /\ pc[a] = "done" /\ result[a].success /\ extractions[a] = 1
    /\ result[a].content = ExtractedText(a)
C21_State ==
    \A a \in Tasks :
        LET r == httpResponse[a]
            calls == formatCalls[a]
        IN  /\ Len(calls) <= 1
            /\ calls # << >> =>
                   /\ AnalysisSucceeded(a) /\ r.status = 200
                   /\ PathGiven(a) /\ ExtractedText(a) # << >>
                   /\ calls = <<ExtractedText(a)>>
                   /\ ~r.formattedContent.isNull
            /\ r.status = 200 =>
                   /\ AnalysisSucceeded(a)
                   /\ r.content = ExtractedText(a)
                   /\ ~(PathGiven(a) /\ ExtractedText(a) # << >>) =>
                          r.formattedContent = NullFormatted /\ calls = << >>
            /\ r.status \in {400, 500} =>
                   calls = << >> /\ r.formattedContent = NullFormatted
C21_Step ==
    \A a \in Tasks :
        /\ formatCalls'[a] # formatCalls[a] =>
               /\ httpResponse[a].status = 0 /\ httpResponse'[a].status = 200
               /\ extractions'[a] = 1
        /\ httpResponse[a].status # 0 =>
               /\ formatCalls'[a] = formatCalls[a]
               /\ httpResponse'[a].content = httpResponse[a].content
               /\ httpResponse'[a].formattedContent
                      = httpResponse[a].formattedContent

\* C21: the formatter is called at most once per request, and only on the
\* way to the 200 response: the analysis has succeeded, the extraction has
\* returned, a gemmaModelPath was given and the extracted text is not empty;
\* it is called with the extracted text.  Every other 200 response has a
\* null formattedContent, the content member of every 200 response is the
\* extracted text itself, no request answered with 400 or 500 has a call of
\* the formatter, and nothing is formatted after the response.
C21_FormatterIsOptionalLastStep == []C21_State /\ [][C21_Step]_vars

\* A request with a model path whose analysis succeeded with a text: one
\* call of the formatter, with the content of the response.
C21_Witness ==
    /\ httpResponse[1].status = 200
    /\ PathGiven(1)
    /\ httpResponse[1].content # << >>
    /\ formatCalls[1] = <<httpResponse[1].content>>
    /\ ~httpResponse[1].formattedContent.isNull

\* A request with a model path whose analysis succeeded with the empty
\* text: no call of the formatter and a null formattedContent.
C21_WitnessEmptyText ==
    /\ httpResponse[1].status = 200
    /\ PathGiven(1)
    /\ httpResponse[1].content = << >>
    /\ formatCalls[1] = << >>
    /\ httpResponse[1].formattedContent.isNull
====
